---- MODULE Spec2Model ----
(***************************************************************************)
(* A model of vigra's random forest configuration objects                  *)
(* (include/vigra/random_forest/rf_common.hxx): RandomForestOptions and    *)
(* ProblemSpec, their flat serialization and the named-map encoding, and    *)
(* the RF_DEFAULT tag with its Value_Chooser; and of copyImage and          *)
(* copyImageIf (include/vigra/copyimage.hxx), one loop iteration a step.   *)
(*                                                                         *)
(* Numbers.  A C++ double is held as an integer count of halves, so 1.5 is *)
(* 3 and double(int v) is 2*v: a conversion between int and double is then *)
(* never the identity.  A value of an unsigned 32 or 64 bit type, and a    *)
(* size_t, is held as a pair <<k, r>> that stands for k * 2^w + r, because *)
(* 2^32 is beyond the integers of the model checker.                       *)
(***************************************************************************)
EXTENDS Integers, Sequences, FiniteSets, TLC

VARIABLES
    opt,    \* the RandomForestOptions object the caller configures
    opt2,   \* a second RandomForestOptions object, the target of a decode
    ps,     \* the ProblemSpec object the caller populates
    ps2,    \* a second ProblemSpec object, the target of a decode
    buf,    \* the caller's ArrayVector<double> handed to (un)serialize
    map,    \* the caller's std::map<std::string, ArrayVector<double> >
    chooser,\* the RF_DEFAULT instance and the objects of the last choose call
    img,    \* the images and the locals of a copyImage / copyImageIf call
    call,   \* the most recent call: its name, argument and outcome
    phase   \* where the caller is: "build", "encoded", "mapped", "decoded", "undefined"

vars == <<opt, opt2, ps, ps2, buf, map, chooser, img, call, phase>>

(***************************************************************************)
(* enum RF_OptionTag, enum ProblemSpec::Problem_t, enum ProblemSpec::Types_t*)
(***************************************************************************)
RF_EQUAL == 0
RF_PROPORTIONAL == 1
RF_EXTERNAL == 2
RF_NONE == 3
RF_FUNCTION == 4
RF_LOG == 5
RF_SQRT == 6
RF_CONST == 7
RF_ALL == 8

RF_OptionTag == RF_EQUAL .. RF_ALL

REGRESSION == 0
CLASSIFICATION == 1
CHECKLATER == 2

UInt8_t == 0
UInt16_t == 1
UInt32_t == 2
UInt64_t == 3
Int8_t == 4
Int16_t == 5
Int32_t == 6
Int64_t == 7
double_t == 8
float_t == 9
UNKNOWN == 10

Types_t == UInt8_t .. float_t

(***************************************************************************)
(* Outcomes of a call.                                                     *)
(***************************************************************************)
Ok == "ok"
PreconditionViolation == "PreconditionViolation"   \* thrown by vigra_precondition
UndefinedBehaviour == "undefined"                  \* the call left defined behaviour

(***************************************************************************)
(* Numeric conversions                                                     *)
(***************************************************************************)
\* double(item_) of an int or enum: the PUSH macro
DoubleOfInt(v) == 2 * v

\* double(item_) of a bool
DoubleOfBool(b) == IF b THEN DoubleOfInt(1) ELSE DoubleOfInt(0)

\* int(*iter), enum(*iter): the PULL macro truncates towards zero
IntOfDouble(d) == IF d >= 0 THEN d \div 2 ELSE -((-d) \div 2)

\* bool(*iter)
BoolOfDouble(d) == d # 0

Zeros(n) == [i \in 1..n |-> 0]


(***************************************************************************)
(* class RandomForestOptions                                               *)
(***************************************************************************)
\* A null function pointer, and the functions a caller may pass.
NullFunction == "null"
Functions == {"fn"}

\* A constructor that sets the tree count the comment on tree_count() names.
RandomForestOptions_255 ==
    [ training_set_proportion_  |-> DoubleOfInt(1),
      training_set_size_        |-> 0,
      training_set_func_        |-> NullFunction,
      training_set_calc_switch_ |-> RF_PROPORTIONAL,
      sample_with_replacement_  |-> TRUE,
      stratification_method_    |-> RF_NONE,
      mtry_switch_              |-> RF_SQRT,
      mtry_                     |-> 0,
      mtry_func_                |-> NullFunction,
      tree_count_               |-> 255,
      min_split_node_size_      |-> 1 ]

\* RandomForestOptions(): the default-constructed object
RandomForestOptions ==
    [ training_set_proportion_  |-> DoubleOfInt(1),
      training_set_size_        |-> 0,
      training_set_func_        |-> NullFunction,
      training_set_calc_switch_ |-> RF_PROPORTIONAL,
      sample_with_replacement_  |-> TRUE,
      stratification_method_    |-> RF_NONE,
      mtry_switch_              |-> RF_SQRT,
      mtry_                     |-> 0,
      mtry_func_                |-> NullFunction,
      tree_count_               |-> 256,
      min_split_node_size_      |-> 1 ]

\* RandomForestOptions::serialized_size()
Options_serialized_size == 11

\* bool RandomForestOptions::operator==(RandomForestOptions &)
Options_equal(a, b) ==
    /\ a.training_set_proportion_ = b.training_set_proportion_
    /\ a.training_set_size_ = b.training_set_size_
    /\ a.training_set_calc_switch_ = b.training_set_calc_switch_
    /\ a.sample_with_replacement_ = b.sample_with_replacement_
    /\ a.stratification_method_ = b.stratification_method_
    /\ a.mtry_switch_ = b.mtry_switch_
    /\ a.mtry_ = b.mtry_
    /\ a.tree_count_ = b.tree_count_
    /\ a.min_split_node_size_ = b.min_split_node_size_

\* A use_stratification that forgets one of the permitted tags.
use_stratification_strict(o, in) ==
    IF in = RF_EQUAL \/ in = RF_PROPORTIONAL \/ in = RF_EXTERNAL
    THEN [obj |-> [o EXCEPT !.stratification_method_ = in], err |-> Ok]
    ELSE [obj |-> o, err |-> PreconditionViolation]

\* RandomForestOptions & use_stratification(RF_OptionTag in)
use_stratification(o, in) ==
    IF in = RF_EQUAL \/ in = RF_PROPORTIONAL \/ in = RF_EXTERNAL \/ in = RF_NONE
    THEN [obj |-> [o EXCEPT !.stratification_method_ = in], err |-> Ok]
    ELSE [obj |-> o, err |-> PreconditionViolation]

\* RandomForestOptions & sample_with_replacement(bool in)
sample_with_replacement(o, in) == [o EXCEPT !.sample_with_replacement_ = in]

\* RandomForestOptions & samples_per_tree(double in)
samples_per_tree_double(o, in) ==
    [o EXCEPT !.training_set_proportion_ = in,
              !.training_set_calc_switch_ = RF_PROPORTIONAL]

\* A samples_per_tree(int) that stores the size and leaves the mode alone.
samples_per_tree_int_stale(o, in) == [o EXCEPT !.training_set_size_ = in]

\* RandomForestOptions & samples_per_tree(int in)
samples_per_tree_int(o, in) ==
    [o EXCEPT !.training_set_size_ = in,
              !.training_set_calc_switch_ = RF_CONST]

\* RandomForestOptions & samples_per_tree(int (*in)(int))
samples_per_tree_func(o, in) ==
    [o EXCEPT !.training_set_func_ = in,
              !.training_set_calc_switch_ = RF_FUNCTION]

\* RandomForestOptions & features_per_node(RF_OptionTag in)
features_per_node_tag(o, in) ==
    IF in = RF_LOG \/ in = RF_SQRT \/ in = RF_ALL
    THEN [obj |-> [o EXCEPT !.mtry_switch_ = in], err |-> Ok]
    ELSE [obj |-> o, err |-> PreconditionViolation]

\* RandomForestOptions & features_per_node(int in)
features_per_node_int(o, in) ==
    [o EXCEPT !.mtry_ = in, !.mtry_switch_ = RF_CONST]

\* RandomForestOptions & features_per_node(int (*in)(int))
features_per_node_func(o, in) ==
    [o EXCEPT !.mtry_func_ = in, !.mtry_switch_ = RF_FUNCTION]

\* RandomForestOptions & tree_count(int in)
tree_count(o, in) == [o EXCEPT !.tree_count_ = in]

\* RandomForestOptions & min_split_node_size(int in)
min_split_node_size(o, in) == [o EXCEPT !.min_split_node_size_ = in]

\* A serialize that writes mtry_ and mtry_switch_ in each other's slot.
Options_serialize_swapped(o, b) ==
    IF Len(b) # 11
    THEN [buf |-> b, err |-> PreconditionViolation]
    ELSE [buf |-> << o.training_set_proportion_,
                     DoubleOfInt(o.training_set_size_),
                     IF o.training_set_func_ # NullFunction
                        THEN DoubleOfInt(1) ELSE DoubleOfInt(0),
                     DoubleOfInt(o.training_set_calc_switch_),
                     DoubleOfBool(o.sample_with_replacement_),
                     DoubleOfInt(o.stratification_method_),
                     DoubleOfInt(o.mtry_),
                     DoubleOfInt(o.mtry_switch_),
                     IF o.mtry_func_ # NullFunction
                        THEN DoubleOfInt(1) ELSE DoubleOfInt(0),
                     DoubleOfInt(o.tree_count_),
                     DoubleOfInt(o.min_split_node_size_) >>,
          err |-> Ok]

\* void RandomForestOptions::serialize(Iter const & begin, Iter const & end) const
\* b is the range [begin, end) as the caller hands it over.
Options_serialize(o, b) ==
    IF Len(b) # 11
    THEN [buf |-> b, err |-> PreconditionViolation]
    ELSE [buf |-> << o.training_set_proportion_,
                     DoubleOfInt(o.training_set_size_),
                     IF o.training_set_func_ # NullFunction
                        THEN DoubleOfInt(1) ELSE DoubleOfInt(0),
                     DoubleOfInt(o.training_set_calc_switch_),
                     DoubleOfBool(o.sample_with_replacement_),
                     DoubleOfInt(o.stratification_method_),
                     DoubleOfInt(o.mtry_switch_),
                     DoubleOfInt(o.mtry_),
                     IF o.mtry_func_ # NullFunction
                        THEN DoubleOfInt(1) ELSE DoubleOfInt(0),
                     DoubleOfInt(o.tree_count_),
                     DoubleOfInt(o.min_split_node_size_) >>,
          err |-> Ok]

\* void RandomForestOptions::unserialize(Iter const & begin, Iter const & end)
\* Slots 3 and 9 (the function flags) are stepped over.
Options_unserialize(o, b) ==
    IF Len(b) # 11
    THEN [obj |-> o, err |-> PreconditionViolation]
    ELSE [obj |-> [o EXCEPT
                     !.training_set_proportion_  = b[1],
                     !.training_set_size_        = IntOfDouble(b[2]),
                     !.training_set_calc_switch_ = IntOfDouble(b[4]),
                     !.sample_with_replacement_  = BoolOfDouble(b[5]),
                     !.stratification_method_    = IntOfDouble(b[6]),
                     !.mtry_switch_              = IntOfDouble(b[7]),
                     !.mtry_                     = IntOfDouble(b[8]),
                     !.tree_count_               = IntOfDouble(b[10]),
                     !.min_split_node_size_      = IntOfDouble(b[11])],
          err |-> Ok]


(***************************************************************************)
(* Conversions into the ten class label types                              *)
(***************************************************************************)
Floating == {double_t, float_t}

\* What a conversion of an out-of-range double to an integer type may give:
\* the low bits of the truncated value, or the nearest bound of the type.
\* (The conversion is undefined; an integer source always converts modulo
\* 2^w, which is "wrap".)
Overflows == {"wrap", "saturate"}

\* The outcomes to tell apart when the labels xs of element type type are
\* converted: both, if a double among them lies outside some integer type.
OverflowsOf(type, xs) ==
    IF type \in Floating
       /\ \E i \in 1..Len(xs) : xs[i] < 0 \/ IntOfDouble(xs[i]) > 127
    THEN Overflows ELSE {"wrap"}

Clamp(t, lo, hi) == IF t < lo THEN lo ELSE IF t > hi THEN hi ELSE t

\* UInt8(x), UInt16(x): m is 2^8 or 2^16
ToUnsigned(t, m, mode) ==
    IF mode = "wrap" THEN t % m ELSE Clamp(t, 0, m - 1)

\* Int8(x), Int16(x): m is 2^8 or 2^16
ToSigned(t, m, mode) ==
    IF mode = "wrap" THEN ((t + m \div 2) % m) - m \div 2
    ELSE Clamp(t, -(m \div 2), m \div 2 - 1)

\* UInt32(x), UInt64(x) as <<k, r>> = k * 2^w + r. The values of the model
\* lie inside the Int32 range, so only a negative one leaves the range.
ToWide(t, mode) ==
    IF t >= 0 THEN <<0, t>>
    ELSE IF mode = "wrap" THEN <<1, t>> ELSE <<0, 0>>

\* The smallest power of two u, from u on, with a \div u below 2^24.
RECURSIVE FloatUnit(_, _)
FloatUnit(a, u) == IF a \div u < 16777216 THEN u ELSE FloatUnit(a, 2 * u)

\* float(x) of a double: round to a 24 bit significand, ties to even.
FloatOfDouble(d) ==
    LET a == IF d < 0 THEN -d ELSE d
        u == FloatUnit(a, 1)
        q == a \div u
        r == a % u
        up == IF 2 * r > u THEN q + 1
              ELSE IF 2 * r = u THEN q + (q % 2)
              ELSE q
    IN  IF d < 0 THEN -(up * u) ELSE up * u

CatalogNames ==
    { "UInt8_classes_", "UInt16_classes_", "UInt32_classes_", "UInt64_classes_",
      "Int8_classes_", "Int16_classes_", "Int32_classes_", "Int64_classes_",
      "double_classes_", "float_classes_" }

\* The ten conversions of one label x of element type type: what classes_
\* pushes, and what unserialize inserts, in the ten catalogs.
Converted(type, x, mode) ==
    LET t == IF type \in Floating THEN IntOfDouble(x) ELSE x
        m == IF type \in Floating THEN mode ELSE "wrap"
        d == IF type \in Floating THEN x ELSE DoubleOfInt(x)
    IN  [ UInt8_classes_  |-> ToUnsigned(t, 256, m),
          UInt16_classes_ |-> ToUnsigned(t, 65536, m),
          UInt32_classes_ |-> ToWide(t, m),
          UInt64_classes_ |-> ToWide(t, m),
          Int8_classes_   |-> ToSigned(t, 256, m),
          Int16_classes_  |-> ToSigned(t, 65536, m),
          Int32_classes_  |-> t,
          Int64_classes_  |-> t,
          double_classes_ |-> d,
          float_classes_  |-> FloatOfDouble(d) ]

\* size_t(v) of an int v, as <<k, r>> = k * 2^64 + r
SizeT(v) == IF v < 0 THEN <<1, v>> ELSE <<0, v>>


(***************************************************************************)
(* class ProblemSpec                                                       *)
(***************************************************************************)
\* ProblemSpec(): the default-constructed object. The constructor does not
\* initialise used_, so the field holds either value: it is kept as the set
\* of values it may hold.
ProblemSpec ==
    [ column_count_   |-> 0,
      class_count_    |-> 0,
      row_count_      |-> 0,
      actual_mtry_    |-> 0,
      actual_msample_ |-> 0,
      problem_type_   |-> CHECKLATER,
      class_type_     |-> UNKNOWN,
      is_weighted     |-> FALSE,
      class_weights_  |-> <<>>,
      used_           |-> BOOLEAN,
      UInt8_classes_  |-> <<>>,
      UInt16_classes_ |-> <<>>,
      UInt32_classes_ |-> <<>>,
      UInt64_classes_ |-> <<>>,
      Int8_classes_   |-> <<>>,
      Int16_classes_  |-> <<>>,
      Int32_classes_  |-> <<>>,
      Int64_classes_  |-> <<>>,
      double_classes_ |-> <<>>,
      float_classes_  |-> <<>> ]

\* bool ProblemSpec::used() const: the values the call may return
used(p) == p.used_

\* ProblemSpec & column_count(int in)
column_count(p, in) == [p EXCEPT !.column_count_ = in]

\* The ten catalogs of p, each with the conversions of the labels xs of
\* element type type appended.
Appended(p, type, xs, mode) ==
    [ f \in DOMAIN p |->
        IF f \in CatalogNames
        THEN p[f] \o [i \in 1..Len(xs) |-> Converted(type, xs[i], mode)[f]]
        ELSE p[f] ]

\* ProblemSpec & classes_(C_Iter begin, C_Iter end), for a non-empty range
\* of elements of type type (type_of(*begin) reads the first element).
classes_(p, type, xs, mode) ==
    [ Appended(p, type, xs, mode)
      EXCEPT !.class_type_ = type, !.class_count_ = Len(xs) ]

\* ProblemSpec & class_weights(W_Iter begin, W_Iter end)
class_weights(p, ws) ==
    [p EXCEPT !.class_weights_ = @ \o ws, !.is_weighted = TRUE]

\* void ProblemSpec::clear(): row_count_ is not among the fields it resets
clear(p) ==
    [ f \in DOMAIN p |->
        CASE f \in CatalogNames    -> <<>>
          [] f = "class_weights_"  -> <<>>
          [] f = "used_"           -> {FALSE}
          [] f = "column_count_"   -> 0
          [] f = "class_count_"    -> 0
          [] f = "actual_mtry_"    -> 0
          [] f = "actual_msample_" -> 0
          [] f = "problem_type_"   -> CHECKLATER
          [] f = "class_type_"     -> UNKNOWN
          [] f = "is_weighted"     -> FALSE
          [] OTHER                 -> p[f] ]

\* A serialized_size that does not count the weights.
serialized_size_unweighted(p) == SizeT(8 + p.class_count_)

\* size_t ProblemSpec::serialized_size() const
serialized_size(p) ==
    SizeT(8 + p.class_count_ * (IF p.is_weighted THEN 2 ELSE 1))

\* void ProblemSpec::unserialize(Iter const & begin, Iter const & end)
\* b is the range [begin, end). Three checks, each after some fields were
\* written; the labels are everything from iter to end.
unserialize(p, b, mode) ==
    IF ~(Len(b) >= 8)
    THEN [obj |-> p, err |-> PreconditionViolation]
    ELSE
    LET p1 == [p EXCEPT !.column_count_ = IntOfDouble(b[1]),
                        !.class_count_  = IntOfDouble(b[2])]
    IN  IF ~(Len(b) >= 8 + p1.class_count_)
        THEN [obj |-> p1, err |-> PreconditionViolation]
        ELSE
        LET p2 == [p1 EXCEPT !.row_count_      = IntOfDouble(b[3]),
                             !.actual_mtry_    = IntOfDouble(b[4]),
                             !.actual_msample_ = IntOfDouble(b[5]),
                             !.problem_type_   = IntOfDouble(b[6]),
                             !.class_type_     = IntOfDouble(b[7]),
                             !.is_weighted     = BoolOfDouble(b[8])]
        IN  IF p2.is_weighted /\ Len(b) # 8 + 2 * p2.class_count_
            THEN [obj |-> p2, err |-> PreconditionViolation]
            ELSE
            LET iter == IF p2.is_weighted THEN 8 + p2.class_count_ ELSE 8
                p3 == IF p2.is_weighted
                      THEN [p2 EXCEPT !.class_weights_ = @ \o SubSeq(b, 9, iter)]
                      ELSE p2
            IN  [obj |-> Appended(p3, double_t, SubSeq(b, iter + 1, Len(b)), mode),
                 err |-> Ok]

\* The writes of serialize, in order, as <<slot, value>>: the eight scalars,
\* then (if weighted) every element of class_weights_ from slot 9 on, then
\* every element of double_classes_ from iter on, where iter was moved by
\* class_count_ and not by the number of weights written.
SerializeWrites(p) ==
    LET scalars == << DoubleOfInt(p.column_count_),
                      DoubleOfInt(p.class_count_),
                      DoubleOfInt(p.row_count_),
                      DoubleOfInt(p.actual_mtry_),
                      DoubleOfInt(p.actual_msample_),
                      DoubleOfInt(p.problem_type_),
                      DoubleOfInt(p.class_type_),
                      DoubleOfBool(p.is_weighted) >>
        iter == IF p.is_weighted THEN 8 + p.class_count_ ELSE 8
    IN  [i \in 1..8 |-> <<i, scalars[i]>>]
        \o (IF p.is_weighted
            THEN [i \in 1..Len(p.class_weights_) |-> <<8 + i, p.class_weights_[i]>>]
            ELSE <<>>)
        \o [i \in 1..Len(p.double_classes_) |-> <<iter + i, p.double_classes_[i]>>]

\* The buffer b after the writes ws that land inside it.
RECURSIVE Written(_, _)
Written(b, ws) ==
    IF ws = <<>> THEN b
    ELSE LET w == Head(ws)
         IN  Written(IF w[1] \in 1..Len(b) THEN [b EXCEPT ![w[1]] = w[2]] ELSE b,
                     Tail(ws))

\* void ProblemSpec::serialize(Iter const & begin, Iter const & end) const
\* b is the caller's buffer, [begin, end). A write outside the buffer is
\* undefined behaviour.
serialize(p, b) ==
    IF SizeT(Len(b)) # serialized_size(p)
    THEN [buf |-> b, err |-> PreconditionViolation]
    ELSE LET ws == SerializeWrites(p)
         IN  [buf |-> Written(b, ws),
              err |-> IF \A i \in 1..Len(ws) : ws[i][1] \in 1..Len(b)
                      THEN Ok ELSE UndefinedBehaviour]

\* The keys of the scalar fields in the named map: the #item_ of the macros.
ScalarKeys ==
    { "column_count_", "class_count_", "row_count_", "actual_mtry_",
      "actual_msample_", "problem_type_", "class_type_", "is_weighted" }

\* void ProblemSpec::make_map(std::map<std::string, ArrayVector<double> > & in) const
make_map(p, in) ==
    [ k \in DOMAIN in \cup ScalarKeys \cup {"class_weights_"} |->
        CASE k = "is_weighted"    -> << DoubleOfBool(p.is_weighted) >>
          [] k = "class_weights_" -> p.class_weights_
          [] k \in ScalarKeys     -> << DoubleOfInt(p[k]) >>
          [] OTHER                -> in[k] ]

\* A make_from_map that empties the label catalogs of its target.
make_from_map_resetting(p, in) ==
    IF \E k \in ScalarKeys : k \notin DOMAIN in \/ in[k] = <<>>
    THEN [obj |-> p, err |-> UndefinedBehaviour]
    ELSE [obj |-> [ f \in DOMAIN p |->
                      CASE f = "is_weighted"    -> BoolOfDouble(in[f][1])
                        [] f = "class_weights_" ->
                             IF f \in DOMAIN in THEN in[f] ELSE <<>>
                        [] f \in ScalarKeys     -> IntOfDouble(in[f][1])
                        [] f \in CatalogNames   -> <<>>
                        [] OTHER                -> p[f] ],
          err |-> Ok]

\* void ProblemSpec::make_from_map(std::map<std::string, ArrayVector<double> > & in)
\* in[key][0] of a key that is missing or holds no element reads outside
\* an array: undefined behaviour. in["class_weights_"] of a missing key is
\* an empty array.
make_from_map(p, in) ==
    IF \E k \in ScalarKeys : k \notin DOMAIN in \/ in[k] = <<>>
    THEN [obj |-> p, err |-> UndefinedBehaviour]
    ELSE [obj |-> [ f \in DOMAIN p |->
                      CASE f = "is_weighted"    -> BoolOfDouble(in[f][1])
                        [] f = "class_weights_" ->
                             IF f \in DOMAIN in THEN in[f] ELSE <<>>
                        [] f \in ScalarKeys     -> IntOfDouble(in[f][1])
                        [] OTHER                -> p[f] ],
          err |-> Ok]


\* The values a read outside an array may deliver, as an element of catalog f.
Garbage(f) == { Converted(Int32_t, g, "wrap")[f] : g \in {0, 7} }

\* void ProblemSpec::to_classlabel(int index, typee_ & out) const, for the
\* catalog f of typee_: the outcomes of the call. ArrayVector's operator[]
\* is data()[index]; outside the array the read is undefined: it delivers
\* whatever lies there, or the process dies.
to_classlabel(p, index, f) ==
    IF index >= 0 /\ index < Len(p[f])
    THEN { [out |-> <<p[f][index + 1]>>, err |-> Ok, dies |-> FALSE] }
    ELSE { [out |-> <<g>>, err |-> UndefinedBehaviour, dies |-> FALSE] :
              g \in Garbage(f) }
         \cup { [out |-> <<>>, err |-> UndefinedBehaviour, dies |-> TRUE] }

(***************************************************************************)
(* class detail::RF_DEFAULT, rf_default(), class detail::Value_Chooser      *)
(*                                                                         *)
(* An object is its address, its type and its value; a reference is an     *)
(* address.                                                                *)
(***************************************************************************)
RF_DEFAULT == "detail::RF_DEFAULT"

\* The function-local static of rf_default(): the one RF_DEFAULT object. It
\* has no data member, hence one value.
Sentinel == [addr |-> "rf_default()::result", type |-> RF_DEFAULT, value |-> <<>>]

\* Before any call: the static is not constructed, nothing was chosen.
Chooser ==
    [ constructed |-> FALSE, t |-> <<>>, c |-> <<>>, ref |-> "", type |-> "" ]

\* detail::RF_DEFAULT & rf_default(): constructs the static on the first
\* call and returns a reference to it.
rf_default(ch) == [ch EXCEPT !.constructed = TRUE]

\* A Value_Chooser that takes the default for an argument of empty value.
choose_by_value(t, c) ==
    [ ref  |-> IF t.value = <<>> THEN c.addr ELSE t.addr,
      type |-> IF t.value = <<>> THEN c.type ELSE t.type,
      t |-> t, c |-> c ]

\* Value_Chooser<T, C>::choose(T & t, C & c) and its typedef type, T being
\* the type of t and C that of c: the primary template returns t, the
\* specialisation for T = detail::RF_DEFAULT returns c. Both objects are
\* taken by reference and neither is written.
choose(t, c) ==
    [ ref  |-> IF t.type = RF_DEFAULT THEN c.addr ELSE t.addr,
      type |-> IF t.type = RF_DEFAULT THEN c.type ELSE t.type,
      t |-> t, c |-> c ]

(***************************************************************************)
(* copyImage, copyImageIf                                                  *)
(*                                                                         *)
(* An image is a function from positions <<x, y>> to pixel values, an      *)
(* image iterator a position. The source holds doubles, the mask and the   *)
(* destination ints: DestAccessor::value_type is int.                      *)
(***************************************************************************)
\* The largest source rectangle is MaxW by MaxH; the destination image is
\* one column and one row larger.
MaxW == 2
MaxH == 2

Positions(w, h) == (0 .. w - 1) \X (0 .. h - 1)

\* The caller's images: a source of distinct values -1.5, -0.5, 0.5, ...,
\* and a destination filled with -7.
SrcImage == [p \in Positions(MaxW, MaxH) |-> 2 * (p[1] + MaxW * p[2]) - 3]
DestImage == [p \in Positions(MaxW + 1, MaxH + 1) |-> -7]

\* The caller's masks: nothing set, everything set, and a checkerboard
\* whose set pixels hold 2.
MaskImages ==
    { [p \in Positions(MaxW, MaxH) |-> 0],
      [p \in Positions(MaxW, MaxH) |-> 1],
      [p \in Positions(MaxW, MaxH) |-> 2 * ((p[1] + p[2]) % 2)],
      [p \in Positions(MaxW, MaxH) |-> 2 * ((p[1] + p[2] + 1) % 2)] }

\* Before any call.
Images ==
    [ op |-> "", pc |-> "idle",
      src |-> SrcImage, mask |-> [p \in Positions(MaxW, MaxH) |-> 0],
      dest |-> DestImage,
      src_upperleft |-> <<0, 0>>, mask_upperleft |-> <<0, 0>>,
      dest_upperleft |-> <<0, 0>>,
      w |-> 0, h |-> 0, x |-> 0, y |-> 0,
      six |-> <<0, 0>>, mx |-> <<0, 0>>, dix |-> <<0, 0>>,
      visited |-> <<>> ]

\* static_cast<typename DestAccessor::value_type>(sa(six)): double to int
value_type(v) == IntOfDouble(v)

\* A test of the mask that takes only the value 1 for set.
ma_is_one(i) == i.op = "copyImage" \/ i.mask[i.mx] = 1

\* if(ma(mx)) of copyImageIf; copyImage has no test.
ma(i) == i.op = "copyImage" \/ i.mask[i.mx] # 0

\* Entry of either function: w and h from the two source iterators, y = 0.
\* visited lists the offsets <<x, y>> at which the loop body has run.
Entered(i, op, ul, lr, mask, dul) ==
    [ i EXCEPT !.op = op, !.pc = "outer", !.mask = mask,
               !.src_upperleft = ul, !.mask_upperleft = <<0, 0>>,
               !.dest_upperleft = dul,
               !.w = lr[1] - ul[1], !.h = lr[2] - ul[2],
               !.y = 0, !.visited = <<>> ]

\* for(int y=0; y<h; ...) with y < h: the row's iterators six, mx and dix
\* are copies of the three upper-left iterators, and x = 0.
RowEntered(i) ==
    [ i EXCEPT !.pc = "inner", !.x = 0,
               !.six = i.src_upperleft, !.mx = i.mask_upperleft,
               !.dix = i.dest_upperleft ]

\* One pass of the inner loop body, with ++x, ++six.x, ++mx.x, ++dix.x.
PixelCopied(i) ==
    [ i EXCEPT !.dest = IF ma(i)
                        THEN [i.dest EXCEPT ![i.dix] = value_type(i.src[i.six])]
                        ELSE i.dest,
               !.visited = Append(i.visited, <<i.x, i.y>>),
               !.x = i.x + 1,
               !.six = <<i.six[1] + 1, i.six[2]>>,
               !.mx = <<i.mx[1] + 1, i.mx[2]>>,
               !.dix = <<i.dix[1] + 1, i.dix[2]>> ]

\* The inner loop left: ++y, ++src_upperleft.y, ++mask_upperleft.y,
\* ++dest_upperleft.y.
RowLeft(i) ==
    [ i EXCEPT !.pc = "outer", !.y = i.y + 1,
               !.src_upperleft = <<i.src_upperleft[1], i.src_upperleft[2] + 1>>,
               !.mask_upperleft = <<i.mask_upperleft[1], i.mask_upperleft[2] + 1>>,
               !.dest_upperleft = <<i.dest_upperleft[1], i.dest_upperleft[2] + 1>> ]

(***************************************************************************)
(* Bounds and inputs                                                       *)
(***************************************************************************)
\* No catalog grows beyond MaxCatalog labels, class_weights_ not beyond
\* MaxWeights weights.
MaxCatalog == 2
MaxWeights == 2

\* The label arrays handed to classes_: element type and elements.
ClassInputs ==
    { [type |-> Int32_t,  xs |-> <<-1, 16777217>>],
      [type |-> Int16_t,  xs |-> <<300>>],
      [type |-> double_t, xs |-> <<3>>] }

\* The weight arrays handed to class_weights: <<0.5>> and <<0.5, 2.0>>.
WeightInputs == { <<1>>, <<1, 4>> }

\* The buffer lengths a caller of ProblemSpec::serialize allocates.
BufferSizes == {7, 8, 9, 10, 12}

Doubles(xs) == [i \in 1..Len(xs) |-> DoubleOfInt(xs[i])]

\* An unweighted ProblemSpec of one class, label 1.0.
Encoded1 == Doubles(<<4, 1, 3, 2, 3, CLASSIFICATION, Int32_t, 0, 1>>)
\* A weighted ProblemSpec of one class, weight 0.5, label -1.5.
EncodedW == Doubles(<<4, 1, 3, 2, 3, CLASSIFICATION, double_t, 1>>) \o <<1, -3>>

\* The ranges handed to ProblemSpec::unserialize by a caller that did not
\* get them from serialize: well-formed, cut short, and too long.
InputBuffers ==
    { Zeros(7), Zeros(8),
      SubSeq(Encoded1, 1, 8), Encoded1, Encoded1 \o <<4>>,
      SubSeq(EncodedW, 1, 9), EncodedW }

\* The maps handed to make_from_map by a caller that did not get them from
\* make_map; each holds every scalar key with one element.
InputMaps ==
    { [ column_count_   |-> Doubles(<<4>>),
        class_count_    |-> Doubles(<<1>>),
        row_count_      |-> Doubles(<<3>>),
        actual_mtry_    |-> Doubles(<<2>>),
        actual_msample_ |-> Doubles(<<3>>),
        problem_type_   |-> Doubles(<<CLASSIFICATION>>),
        class_type_     |-> Doubles(<<Int32_t>>),
        is_weighted     |-> Doubles(<<1>>),
        class_weights_  |-> <<1>> ] }

\* The ranges handed to RandomForestOptions::unserialize by a caller that
\* did not get them from serialize. The tree count 100.5 truncates to 100.
OptionInputs ==
    { Zeros(10), Zeros(12),
      <<1>> \o Doubles(<<10, 1, RF_CONST, 0, RF_EQUAL, RF_ALL, 3, 1>>) \o <<201>>
            \o Doubles(<<5>>) }

\* The buffer lengths a caller of RandomForestOptions::serialize allocates.
OptionBufferSizes == {10, 11, 12}

\* The caller's objects handed to choose hold no more than MaxElements
\* elements, each 0 or 1.
MaxElements == 2

Containers ==
    UNION { [1..n -> {0, 1}] : n \in 0..MaxElements }

\* The objects a caller passes as argument t (at address "in") and as
\* fallback c (at address "default_value"): containers of two types.
ObjectTypes == { "ArrayVector<int>", "std::vector<double>" }

Objects(addr) ==
    { [addr |-> addr, type |-> ty, value |-> v] :
         ty \in ObjectTypes, v \in Containers }

(***************************************************************************)
(* The caller                                                              *)
(*                                                                         *)
(* A caller builds an object with any calls in any order ("build"), then   *)
(* encodes it into a buffer ("encoded") or a map ("mapped") and decodes    *)
(* that into the second object ("decoded"). After a write outside an array, *)
(* and when a read outside an array ends the process, nothing more is      *)
(* defined ("undefined"): no call follows.                                  *)
(***************************************************************************)
Called(op, target, arg, err, out) ==
    [op |-> op, target |-> target, arg |-> arg, err |-> err, out |-> out]

Init ==
    /\ opt = RandomForestOptions
    /\ opt2 = RandomForestOptions
    /\ ps = ProblemSpec
    /\ ps2 = ProblemSpec
    /\ buf = <<>>
    /\ map = <<>>
    /\ chooser = Chooser
    /\ img = Images
    /\ call = Called("construct", "", <<>>, Ok, <<>>)
    /\ phase = "build"

----------------------------------------------------------------------------
\* RandomForestOptions

Call_use_stratification ==
    /\ phase = "build"
    /\ \E in \in RF_OptionTag :
         LET r == use_stratification(opt, in)
         IN  /\ opt' = r.obj
             /\ call' = Called("use_stratification", "opt", in, r.err, <<>>)
    /\ UNCHANGED <<img, chooser, opt2, ps, ps2, buf, map, phase>>

Call_sample_with_replacement ==
    /\ phase = "build"
    /\ \E in \in BOOLEAN :
         /\ opt' = sample_with_replacement(opt, in)
         /\ call' = Called("sample_with_replacement", "opt", in, Ok, <<>>)
    /\ UNCHANGED <<img, chooser, opt2, ps, ps2, buf, map, phase>>

Call_samples_per_tree_double ==
    /\ phase = "build"
    /\ \E in \in {1} :
         /\ opt' = samples_per_tree_double(opt, in)
         /\ call' = Called("samples_per_tree_double", "opt", in, Ok, <<>>)
    /\ UNCHANGED <<img, chooser, opt2, ps, ps2, buf, map, phase>>

Call_samples_per_tree_int ==
    /\ phase = "build"
    /\ \E in \in {10} :
         /\ opt' = samples_per_tree_int(opt, in)
         /\ call' = Called("samples_per_tree_int", "opt", in, Ok, <<>>)
    /\ UNCHANGED <<img, chooser, opt2, ps, ps2, buf, map, phase>>

Call_samples_per_tree_func ==
    /\ phase = "build"
    /\ \E in \in Functions :
         /\ opt' = samples_per_tree_func(opt, in)
         /\ call' = Called("samples_per_tree_func", "opt", in, Ok, <<>>)
    /\ UNCHANGED <<img, chooser, opt2, ps, ps2, buf, map, phase>>

Call_features_per_node_tag ==
    /\ phase = "build"
    /\ \E in \in RF_OptionTag :
         LET r == features_per_node_tag(opt, in)
         IN  /\ opt' = r.obj
             /\ call' = Called("features_per_node_tag", "opt", in, r.err, <<>>)
    /\ UNCHANGED <<img, chooser, opt2, ps, ps2, buf, map, phase>>

Call_features_per_node_int ==
    /\ phase = "build"
    /\ \E in \in {3} :
         /\ opt' = features_per_node_int(opt, in)
         /\ call' = Called("features_per_node_int", "opt", in, Ok, <<>>)
    /\ UNCHANGED <<img, chooser, opt2, ps, ps2, buf, map, phase>>

Call_features_per_node_func ==
    /\ phase = "build"
    /\ \E in \in Functions :
         /\ opt' = features_per_node_func(opt, in)
         /\ call' = Called("features_per_node_func", "opt", in, Ok, <<>>)
    /\ UNCHANGED <<img, chooser, opt2, ps, ps2, buf, map, phase>>

Call_tree_count ==
    /\ phase = "build"
    /\ \E in \in {100} :
         /\ opt' = tree_count(opt, in)
         /\ call' = Called("tree_count", "opt", in, Ok, <<>>)
    /\ UNCHANGED <<img, chooser, opt2, ps, ps2, buf, map, phase>>

Call_min_split_node_size ==
    /\ phase = "build"
    /\ \E in \in {5} :
         /\ opt' = min_split_node_size(opt, in)
         /\ call' = Called("min_split_node_size", "opt", in, Ok, <<>>)
    /\ UNCHANGED <<img, chooser, opt2, ps, ps2, buf, map, phase>>

\* opt.unserialize(b.begin(), b.end()) of a range from elsewhere
Call_Options_unserialize ==
    /\ phase = "build"
    /\ \E b \in OptionInputs :
         LET r == Options_unserialize(opt, b)
         IN  /\ opt' = r.obj
             /\ call' = Called("Options_unserialize", "opt", b, r.err, <<>>)
    /\ UNCHANGED <<img, chooser, opt2, ps, ps2, buf, map, phase>>

\* ArrayVector<double> b(n); opt.serialize(b.begin(), b.end())
Call_Options_serialize ==
    /\ phase = "build"
    /\ \E n \in OptionBufferSizes :
         LET r == Options_serialize(opt, Zeros(n))
         IN  /\ buf' = IF r.err = Ok THEN r.buf ELSE <<>>
             /\ phase' = IF r.err = Ok THEN "encoded" ELSE "build"
             /\ call' = Called("Options_serialize", "opt", n, r.err, <<>>)
    /\ UNCHANGED <<img, chooser, opt, opt2, ps, ps2, map>>

\* opt2.unserialize(b.begin(), b.end()) of the buffer opt was serialized into
Call_Options_unserialize2 ==
    /\ phase = "encoded"
    /\ call.op = "Options_serialize"
    /\ LET r == Options_unserialize(opt2, buf)
       IN  /\ opt2' = r.obj
           /\ call' = Called("Options_unserialize", "opt2", buf, r.err, <<>>)
    /\ phase' = "decoded"
    /\ UNCHANGED <<img, chooser, opt, ps, ps2, buf, map>>

----------------------------------------------------------------------------
\* RF_DEFAULT and Value_Chooser

\* rf_default()
Call_rf_default ==
    /\ chooser' = rf_default(chooser)
    /\ call' = Called("rf_default", "", <<>>, Ok, <<Sentinel.addr>>)
    /\ UNCHANGED <<img, opt, opt2, ps, ps2, buf, map, phase>>

\* Value_Chooser<T, C>::choose(t, c): t is the caller's object in or, once
\* rf_default() has returned it, the RF_DEFAULT object.
Call_choose ==
    /\ \E t \in Objects("in") \cup {Sentinel}, c \in Objects("default_value") :
         /\ t = Sentinel => chooser.constructed
         /\ LET r == choose(t, c)
            IN  /\ chooser' = [chooser EXCEPT !.t = r.t, !.c = r.c,
                                              !.ref = r.ref, !.type = r.type]
                /\ call' = Called("choose", "", <<t, c>>, Ok, <<r.ref>>)
    /\ UNCHANGED <<img, opt, opt2, ps, ps2, buf, map, phase>>

NextChooser ==
    \/ Call_rf_default
    \/ Call_choose

SpecChooser == Init /\ [][NextChooser]_vars

----------------------------------------------------------------------------
\* copyImage and copyImageIf

\* The iterator pairs a caller passes: the source rectangle starts at
\* <<0, 0>>, <<1, 0>> or <<0, 1>> and ends anywhere in the source image,
\* also left of or above its start; the destination rectangle lies inside the
\* destination image.
CopyArguments ==
    { a \in [ ul : {<<0, 0>>, <<1, 0>>, <<0, 1>>}, lr : Positions(MaxW + 1, MaxH + 1),
              dul : {<<0, 0>>, <<1, 1>>} ] :
        /\ a.dul[1] + (a.lr[1] - a.ul[1]) <= MaxW + 1
        /\ a.dul[2] + (a.lr[2] - a.ul[2]) <= MaxH + 1 }

\* copyImage(src_upperleft, src_lowerright, sa, dest_upperleft, da)
Call_copyImage ==
    /\ img.pc = "idle"
    /\ \E a \in CopyArguments :
         /\ img' = Entered(img, "copyImage", a.ul, a.lr, img.mask, a.dul)
         /\ call' = Called("copyImage", "dest", a, "", <<>>)
    /\ UNCHANGED <<opt, opt2, ps, ps2, buf, map, chooser, phase>>

\* copyImageIf(src_upperleft, src_lowerright, sa, mask_upperleft, ma,
\*             dest_upperleft, da)
Call_copyImageIf ==
    /\ img.pc = "idle"
    /\ \E a \in CopyArguments, mask \in MaskImages :
         /\ img' = Entered(img, "copyImageIf", a.ul, a.lr, mask, a.dul)
         /\ call' = Called("copyImageIf", "dest", a, "", <<>>)
    /\ UNCHANGED <<opt, opt2, ps, ps2, buf, map, chooser, phase>>

\* The test y < h of the outer loop: a row is entered, or the call returns.
Copy_outer ==
    /\ img.pc = "outer"
    /\ IF img.y < img.h
       THEN /\ img' = RowEntered(img)
            /\ call' = call
       ELSE /\ img' = [img EXCEPT !.pc = "done"]
            /\ call' = [call EXCEPT !.err = Ok]
    /\ UNCHANGED <<opt, opt2, ps, ps2, buf, map, chooser, phase>>

\* The test x < w of the inner loop: a pixel is handled, or the row is left.
Copy_inner ==
    /\ img.pc = "inner"
    /\ img' = IF img.x < img.w THEN PixelCopied(img) ELSE RowLeft(img)
    /\ UNCHANGED <<opt, opt2, ps, ps2, buf, map, chooser, call, phase>>

NextCopy ==
    \/ Call_copyImage
    \/ Call_copyImageIf
    \/ Copy_outer
    \/ Copy_inner

\* A call that has begun runs on: nothing suspends the loops.
SpecCopy ==
    Init /\ [][NextCopy]_vars /\ WF_vars(Copy_outer) /\ WF_vars(Copy_inner)

NextOptions ==
    \/ Call_use_stratification
    \/ Call_sample_with_replacement
    \/ Call_samples_per_tree_double
    \/ Call_samples_per_tree_int
    \/ Call_samples_per_tree_func
    \/ Call_features_per_node_tag
    \/ Call_features_per_node_int
    \/ Call_features_per_node_func
    \/ Call_tree_count
    \/ Call_min_split_node_size
    \/ Call_Options_unserialize
    \/ Call_Options_serialize
    \/ Call_Options_unserialize2

SpecOptions == Init /\ [][NextOptions]_vars


----------------------------------------------------------------------------
\* ProblemSpec

Call_column_count ==
    /\ phase = "build"
    /\ \E in \in {4} :
         /\ ps' = column_count(ps, in)
         /\ call' = Called("column_count", "ps", in, Ok, <<>>)
    /\ UNCHANGED <<img, chooser, opt, opt2, ps2, buf, map, phase>>

Call_classes_ ==
    /\ phase = "build"
    /\ \E c \in ClassInputs :
       \E mode \in OverflowsOf(c.type, c.xs) :
         /\ Len(ps.double_classes_) + Len(c.xs) <= MaxCatalog
         /\ ps' = classes_(ps, c.type, c.xs, mode)
         /\ call' = Called("classes_", "ps", c, Ok, <<>>)
    /\ UNCHANGED <<img, chooser, opt, opt2, ps2, buf, map, phase>>

Call_class_weights ==
    /\ phase = "build"
    /\ \E ws \in WeightInputs :
         /\ Len(ps.class_weights_) + Len(ws) <= MaxWeights
         /\ ps' = class_weights(ps, ws)
         /\ call' = Called("class_weights", "ps", ws, Ok, <<>>)
    /\ UNCHANGED <<img, chooser, opt, opt2, ps2, buf, map, phase>>

Call_clear ==
    /\ phase = "build"
    /\ ps' = clear(ps)
    /\ call' = Called("clear", "ps", <<>>, Ok, <<>>)
    /\ UNCHANGED <<img, chooser, opt, opt2, ps2, buf, map, phase>>

\* ps.unserialize(b.begin(), b.end()) of a range from elsewhere
Call_unserialize ==
    /\ phase = "build"
    /\ \E b \in InputBuffers :
       \E mode \in OverflowsOf(double_t, b) :
         LET r == unserialize(ps, b, mode)
         IN  /\ Len(r.obj.double_classes_) <= MaxCatalog
             /\ Len(r.obj.class_weights_) <= MaxWeights
             /\ ps' = r.obj
             /\ call' = Called("unserialize", "ps", b, r.err, <<>>)
    /\ UNCHANGED <<img, chooser, opt, opt2, ps2, buf, map, phase>>

\* ps.make_from_map(in) of a map from elsewhere
Call_make_from_map ==
    /\ phase = "build"
    /\ \E in \in InputMaps :
         LET r == make_from_map(ps, in)
         IN  /\ ps' = r.obj
             /\ call' = Called("make_from_map", "ps", in, r.err, <<>>)
    /\ UNCHANGED <<img, chooser, opt, opt2, ps2, buf, map, phase>>

\* ArrayVector<double> b(n); ps.serialize(b.begin(), b.end())
Call_serialize ==
    /\ phase = "build"
    /\ \E n \in BufferSizes :
         LET r == serialize(ps, Zeros(n))
         IN  /\ buf' = IF r.err = PreconditionViolation THEN <<>> ELSE r.buf
             /\ phase' = CASE r.err = PreconditionViolation -> "build"
                           [] r.err = UndefinedBehaviour    -> "undefined"
                           [] OTHER                         -> "encoded"
             /\ call' = Called("serialize", "ps", n, r.err, <<>>)
    /\ UNCHANGED <<img, chooser, opt, opt2, ps, ps2, map>>

\* ps2.unserialize(b.begin(), b.end()) of the buffer ps was serialized into
Call_unserialize2 ==
    /\ phase = "encoded"
    /\ call.op = "serialize"
    /\ \E mode \in OverflowsOf(double_t, buf) :
         LET r == unserialize(ps2, buf, mode)
         IN  /\ ps2' = r.obj
             /\ call' = Called("unserialize", "ps2", buf, r.err, <<>>)
    /\ phase' = "decoded"
    /\ UNCHANGED <<img, chooser, opt, opt2, ps, buf, map>>

\* std::map<...> in; ps.make_map(in)
Call_make_map ==
    /\ phase = "build"
    /\ map' = make_map(ps, map)
    /\ call' = Called("make_map", "ps", <<>>, Ok, <<>>)
    /\ phase' = "mapped"
    /\ UNCHANGED <<img, chooser, opt, opt2, ps, ps2, buf>>

\* ps2.make_from_map(in) of the map ps was written into
Call_make_from_map2 ==
    /\ phase = "mapped"
    /\ LET r == make_from_map(ps2, map)
       IN  /\ ps2' = r.obj
           /\ call' = Called("make_from_map", "ps2", map, r.err, <<>>)
    /\ phase' = "decoded"
    /\ UNCHANGED <<img, chooser, opt, opt2, ps, buf, map>>

\* T out; ps.to_classlabel(index, out)
Call_to_classlabel ==
    /\ phase = "build"
    /\ \E index \in -1 .. MaxCatalog, f \in CatalogNames :
         \E r \in to_classlabel(ps, index, f) :
            /\ call' = Called("to_classlabel", "ps", <<index, f>>, r.err, r.out)
            /\ phase' = IF r.dies THEN "undefined" ELSE "build"
    /\ UNCHANGED <<img, chooser, opt, opt2, ps, ps2, buf, map>>

NextProblem ==
    \/ Call_column_count
    \/ Call_classes_
    \/ Call_class_weights
    \/ Call_clear
    \/ Call_unserialize
    \/ Call_make_from_map
    \/ Call_serialize
    \/ Call_unserialize2
    \/ Call_make_map
    \/ Call_make_from_map2

SpecProblem == Init /\ [][NextProblem]_vars

\* The builder calls alone.
NextBuilders ==
    \/ Call_column_count
    \/ Call_classes_
    \/ Call_class_weights
    \/ Call_clear

SpecBuilders == Init /\ [][NextBuilders]_vars

\* The builder calls, then the flat encoding and its decoding.
NextRoundTrip ==
    \/ Call_column_count
    \/ Call_classes_
    \/ Call_class_weights
    \/ Call_clear
    \/ Call_serialize
    \/ Call_unserialize2

SpecRoundTrip == Init /\ [][NextRoundTrip]_vars

\* ps2.classes_(l.begin(), l.end()) on the object the map is then read into
Call_classes_2 ==
    /\ phase = "mapped"
    /\ \E c \in ClassInputs :
       \E mode \in OverflowsOf(c.type, c.xs) :
         /\ Len(ps2.double_classes_) + Len(c.xs) <= MaxCatalog
         /\ ps2' = classes_(ps2, c.type, c.xs, mode)
         /\ call' = Called("classes_", "ps2", c, Ok, <<>>)
    /\ UNCHANGED <<img, chooser, opt, opt2, ps, buf, map, phase>>

\* Any ProblemSpec written into a named map, and the map read into a second
\* object that may hold labels of its own.
NextMap ==
    \/ Call_column_count
    \/ Call_classes_
    \/ Call_class_weights
    \/ Call_clear
    \/ Call_unserialize
    \/ Call_make_from_map
    \/ Call_make_map
    \/ Call_classes_2
    \/ Call_make_from_map2

SpecMap == Init /\ [][NextMap]_vars

NextLabels ==
    \/ Call_classes_
    \/ Call_clear
    \/ Call_make_from_map
    \/ Call_to_classlabel

SpecLabels == Init /\ [][NextLabels]_vars


(***************************************************************************)
(* Claims                                                                  *)
(***************************************************************************)
Catalogs_consistent(p) ==
    /\ \A f \in CatalogNames : Len(p[f]) = p.class_count_
    /\ \A i \in 1..p.class_count_ :
         \E mode \in Overflows :
            \A f \in CatalogNames :
               p[f][i] = Converted(double_t, p.double_classes_[i], mode)[f]

\* C1: in every reachable state all ten catalogs of the ProblemSpec have
\* length class_count_, and position i of every catalog holds the
\* conversion of one and the same label.
C1_CatalogInvariant == Catalogs_consistent(ps)

\* C2: a serialize or unserialize call on a range of the wrong length fails
\* with a precondition violation: for RandomForestOptions any length but
\* 11, for ProblemSpec::serialize any length but serialized_size(), for
\* ProblemSpec::unserialize any length but 8 + c (is_weighted slot 0) or
\* 8 + 2c (slot 1), c being the class_count slot of the input.
C2_WrongLengthFails ==
    /\ call.op = "Options_serialize" /\ call.arg # 11
         => call.err = PreconditionViolation
    /\ call.op = "Options_unserialize" /\ Len(call.arg) # 11
         => call.err = PreconditionViolation
    /\ call.op = "serialize" /\ SizeT(call.arg) # serialized_size(ps)
         => call.err = PreconditionViolation
    /\ call.op = "unserialize"
         => LET b == call.arg
            IN  \/ call.err = PreconditionViolation
                \/ /\ Len(b) >= 8
                   /\ Len(b) = 8 + IntOfDouble(b[2])
                                   * (IF BoolOfDouble(b[8]) THEN 2 ELSE 1)

\* C3: a serialize or unserialize call that fails with a precondition
\* violation leaves every field of every object as it was before the call.
C3_FailureLeavesTargetUnchanged ==
    [][ call'.op \in {"Options_serialize", "Options_unserialize",
                      "serialize", "unserialize"}
        /\ call'.err = PreconditionViolation
        => opt' = opt /\ opt2' = opt2 /\ ps' = ps /\ ps2' = ps2 ]_vars


\* C4: serializing opt into an 11-slot buffer and unserializing that buffer
\* into opt2 gives opt2 the value of opt in each of the nine fields that
\* are not function pointers, so that opt2 == opt.
C4_OptionsRoundTrip ==
    phase = "decoded" /\ call.op = "Options_unserialize" /\ call.target = "opt2"
    => /\ call.err = Ok
       /\ Options_equal(opt2, opt)
       /\ \A f \in DOMAIN opt \ {"training_set_func_", "mtry_func_"} :
             opt2[f] = opt[f]

\* A round trip of an object whose nine fields all differ from the defaults.
C4_Witness ==
    /\ phase = "decoded" /\ call.op = "Options_unserialize"
    /\ call.target = "opt2" /\ call.err = Ok
    /\ \A f \in DOMAIN opt \ {"training_set_func_", "mtry_func_"} :
          opt[f] # RandomForestOptions[f] /\ opt2[f] = opt[f]

\* C5: serializing an unweighted ps into a buffer of serialized_size()
\* slots and unserializing that buffer into the default-constructed ps2
\* reproduces the seven scalars and the double catalog exactly.
C5_ProblemSpecRoundTrip ==
    /\ call.op = "serialize" /\ ~ps.is_weighted
       /\ SizeT(call.arg) = serialized_size(ps)
       => call.err = Ok
    /\ phase = "decoded" /\ call.op = "unserialize" /\ call.target = "ps2"
       /\ ~ps.is_weighted
       => /\ call.err = Ok
          /\ \A f \in ScalarKeys \ {"is_weighted"} : ps2[f] = ps[f]
          /\ ps2.double_classes_ = ps.double_classes_

\* C6: to_classlabel(index, out) fails with an index-out-of-range error for
\* every index outside [0, class_count_) and succeeds for every index
\* inside, writing the entry of the requested catalog at that index.
C6_ToClassLabelRange ==
    call.op = "to_classlabel"
    => LET index == call.arg[1]
           f == call.arg[2]
       IN  IF index >= 0 /\ index < ps.class_count_
           THEN call.err = Ok /\ call.out = <<ps[f][index + 1]>>
           ELSE call.err = "IndexOutOfRange"

\* C7: after clear() the ProblemSpec equals a default-constructed one, with
\* used() false.
C7_ClearResets ==
    call.op = "clear" => ps = [ProblemSpec EXCEPT !.used_ = {FALSE}]

SamplingFields ==
    { "training_set_proportion_", "training_set_size_", "training_set_func_",
      "training_set_calc_switch_" }
MtryFields == { "mtry_switch_", "mtry_", "mtry_func_" }
Setters ==
    { "use_stratification", "sample_with_replacement", "samples_per_tree_double",
      "samples_per_tree_int", "samples_per_tree_func", "features_per_node_tag",
      "features_per_node_int", "features_per_node_func", "tree_count",
      "min_split_node_size" }

\* C8: a default-constructed object has mode RF_PROPORTIONAL and RF_SQRT;
\* every samples_per_tree call leaves its mode and its argument in the
\* field of that mode, every (successful) features_per_node call likewise,
\* and every other setter leaves the fields of the group alone: so the mode
\* is always that of the most recent call of the group.
C8_ModeGroups ==
    /\ opt.training_set_calc_switch_ = RF_PROPORTIONAL
    /\ opt.mtry_switch_ = RF_SQRT
    /\ [][ /\ call'.op = "samples_per_tree_double"
              => /\ opt'.training_set_calc_switch_ = RF_PROPORTIONAL
                 /\ opt'.training_set_proportion_ = call'.arg
           /\ call'.op = "samples_per_tree_int"
              => /\ opt'.training_set_calc_switch_ = RF_CONST
                 /\ opt'.training_set_size_ = call'.arg
           /\ call'.op = "samples_per_tree_func"
              => /\ opt'.training_set_calc_switch_ = RF_FUNCTION
                 /\ opt'.training_set_func_ = call'.arg
           /\ call'.op = "features_per_node_tag" /\ call'.err = Ok
              => opt'.mtry_switch_ = call'.arg
           /\ call'.op = "features_per_node_int"
              => opt'.mtry_switch_ = RF_CONST /\ opt'.mtry_ = call'.arg
           /\ call'.op = "features_per_node_func"
              => opt'.mtry_switch_ = RF_FUNCTION /\ opt'.mtry_func_ = call'.arg
           /\ call'.op \in Setters
              /\ call'.op \notin { "samples_per_tree_double", "samples_per_tree_int",
                                   "samples_per_tree_func" }
              => \A f \in SamplingFields : opt'[f] = opt[f]
           /\ call'.op \in Setters
              /\ ( call'.op \notin { "features_per_node_tag", "features_per_node_int",
                                     "features_per_node_func" }
                   \/ call'.err # Ok )
              => \A f \in MtryFields : opt'[f] = opt[f]
         ]_vars

\* samples_per_tree(0.5) followed by samples_per_tree(10).
C8_Witness ==
    /\ call.op = "samples_per_tree_int" /\ call.arg = 10
    /\ opt.training_set_proportion_ = 1
    /\ opt.training_set_calc_switch_ = RF_CONST
    /\ opt.training_set_size_ = 10

\* C9: use_stratification(tag) stores a tag among RF_EQUAL, RF_PROPORTIONAL,
\* RF_EXTERNAL, RF_NONE and changes nothing else; for any other tag it
\* fails and changes nothing. features_per_node(tag) does the same with
\* mtry_switch_ for RF_LOG, RF_SQRT, RF_ALL.  The failure is the one
\* vigra_precondition raises.
C9_TagValidation ==
    [][ /\ call'.op = "use_stratification"
           => IF call'.arg \in {RF_EQUAL, RF_PROPORTIONAL, RF_EXTERNAL, RF_NONE}
              THEN /\ call'.err = Ok
                   /\ opt' = [opt EXCEPT !.stratification_method_ = call'.arg]
              ELSE call'.err = PreconditionViolation /\ opt' = opt
        /\ call'.op = "features_per_node_tag"
           => IF call'.arg \in {RF_LOG, RF_SQRT, RF_ALL}
              THEN /\ call'.err = Ok
                   /\ opt' = [opt EXCEPT !.mtry_switch_ = call'.arg]
              ELSE call'.err = PreconditionViolation /\ opt' = opt
      ]_vars

\* use_stratification(RF_LOG) refused on an object that holds RF_EQUAL.
C9_Witness ==
    /\ call.op = "use_stratification" /\ call.arg = RF_LOG
    /\ call.err = PreconditionViolation
    /\ opt.stratification_method_ = RF_EQUAL

\* C10: a serialize of a ProblemSpec whose class_weights_ do not number
\* class_count_ fails with a precondition violation.
C10_WeightCountCaught ==
    /\ call.op = "serialize" /\ ps.is_weighted
    /\ Len(ps.class_weights_) # ps.class_count_
    => call.err = PreconditionViolation

\* C11: after a successful RandomForestOptions::unserialize, into opt or into
\* opt2, both function-pointer fields of the target are absent, so that a
\* following serialize writes 0 in the two has-function slots (3 and 9).
C11_UnserializeUnsetsFunctions ==
    call.op = "Options_unserialize" /\ call.err = Ok
    => LET o == IF call.target = "opt" THEN opt ELSE opt2
           b == Options_serialize(o, Zeros(11)).buf
       IN  /\ o.training_set_func_ = NullFunction
           /\ o.mtry_func_ = NullFunction
           /\ b[3] = DoubleOfInt(0)
           /\ b[9] = DoubleOfInt(0)

\* C12: make_map(ps) gives a map that holds each of the eight scalars as a
\* length-1 sequence under its field name and class_weights_ under its own,
\* and nothing else; make_from_map of that map into ps2 makes the eight
\* scalars and class_weights_ of ps2 equal to those of ps and leaves the ten
\* catalogs of ps2 as they were.
C12_NamedMap ==
    /\ [](phase = "mapped"
           => /\ DOMAIN map = ScalarKeys \cup {"class_weights_"}
              /\ \A k \in ScalarKeys : Len(map[k]) = 1
              /\ map["class_weights_"] = ps.class_weights_)
    /\ [][ call'.op = "make_from_map" /\ call'.target = "ps2"
           => /\ call'.err = Ok
              /\ \A k \in ScalarKeys : ps2'[k] = ps[k]
              /\ ps2'.class_weights_ = ps.class_weights_
              /\ \A f \in CatalogNames : ps2'[f] = ps2[f]
         ]_vars

\* A weighted ps with two labels read, through the map, into a ps2 that
\* holds one label of its own.
C12_Witness ==
    /\ call.op = "make_from_map" /\ call.target = "ps2" /\ call.err = Ok
    /\ ps.is_weighted /\ ps2.is_weighted
    /\ ps.class_count_ = 2 /\ ps2.class_count_ = 2
    /\ ps2.class_weights_ = ps.class_weights_ /\ ps.class_weights_ # <<>>
    /\ Len(ps2.Int16_classes_) = 1

\* C13: whenever class_count_ is not negative, serialized_size() is
\* 8 + class_count_ for an unweighted ProblemSpec and 8 + 2 * class_count_
\* for a weighted one, and serialize accepts a buffer of exactly that many
\* slots and no other.
C13_SerializedSize ==
    ps.class_count_ >= 0
    => /\ ~ps.is_weighted => serialized_size(ps) = <<0, 8 + ps.class_count_>>
       /\ ps.is_weighted
            => serialized_size(ps) = <<0, 8 + 2 * ps.class_count_>>
       /\ call.op = "serialize"
            => ( call.err = PreconditionViolation
                 <=> call.arg # 8 + ps.class_count_
                                  * (IF ps.is_weighted THEN 2 ELSE 1) )

\* A weighted ProblemSpec of two classes serialized into 12 slots.
C13_Witness ==
    /\ call.op = "serialize" /\ call.arg = 12 /\ call.err = Ok
    /\ ps.is_weighted /\ ps.class_count_ = 2
    /\ serialized_size(ps) = <<0, 12>>

\* C14: choose(t, c) returns a reference to c itself when the type of t is
\* RF_DEFAULT and to t itself for every other type of t, whatever the values
\* of t and c, and leaves both objects as they were.
C14_ValueChooser ==
    call.op = "choose"
    => LET t == call.arg[1]
           c == call.arg[2]
       IN  /\ t.type = RF_DEFAULT => chooser.ref = c.addr /\ chooser.type = c.type
           /\ t.type # RF_DEFAULT => chooser.ref = t.addr /\ chooser.type = t.type
           /\ chooser.t = t
           /\ chooser.c = c

\* An empty container passed as the argument is returned itself, and the
\* fallback is not.
C14_Witness ==
    /\ call.op = "choose"
    /\ call.arg[1].type = "ArrayVector<int>" /\ call.arg[1].value = <<>>
    /\ call.arg[2].value = <<1, 0>>
    /\ chooser.ref = "in"

\* The fields each setter writes.
FieldsOf(op) ==
    CASE op = "use_stratification"      -> {"stratification_method_"}
      [] op = "sample_with_replacement" -> {"sample_with_replacement_"}
      [] op = "samples_per_tree_double"
           -> {"training_set_proportion_", "training_set_calc_switch_"}
      [] op = "samples_per_tree_int"
           -> {"training_set_size_", "training_set_calc_switch_"}
      [] op = "samples_per_tree_func"
           -> {"training_set_func_", "training_set_calc_switch_"}
      [] op = "features_per_node_tag"   -> {"mtry_switch_"}
      [] op = "features_per_node_int"   -> {"mtry_", "mtry_switch_"}
      [] op = "features_per_node_func"  -> {"mtry_func_", "mtry_switch_"}
      [] op = "tree_count"              -> {"tree_count_"}
      [] op = "min_split_node_size"     -> {"min_split_node_size_"}

RowMajor(w, h) ==
    IF w <= 0 \/ h <= 0 THEN <<>>
    ELSE [k \in 1 .. w * h |-> <<(k - 1) % w, (k - 1) \div w>>]

\* C16: a copyImage or copyImageIf call returns; when it has, the loop body
\* has run at each offset of the w by h rectangle once, in row-major order;
\* the destination holds, at each such offset from dest_upperleft, the
\* source value at that offset from src_upperleft converted to int if the
\* call is copyImage or the mask there is not zero, and its former value
\* otherwise; every position outside the rectangle holds its former
\* value; for w <= 0 or h <= 0 no position has changed.
C16_PixelCopy ==
    /\ [](img.pc = "done"
          => LET a == call.arg
                 w == a.lr[1] - a.ul[1]
                 h == a.lr[2] - a.ul[2]
             IN  /\ img.visited = RowMajor(w, h)
                 /\ \A p \in DOMAIN img.dest :
                      LET o == <<p[1] - a.dul[1], p[2] - a.dul[2]>>
                          s == <<a.ul[1] + o[1], a.ul[2] + o[2]>>
                      IN  IF /\ o[1] >= 0 /\ o[1] < w /\ o[2] >= 0 /\ o[2] < h
                             /\ (call.op = "copyImage" \/ img.mask[o] # 0)
                          THEN img.dest[p] = IntOfDouble(SrcImage[s])
                          ELSE img.dest[p] = DestImage[p]
                 /\ (w <= 0 \/ h <= 0) => img.dest = DestImage)
    /\ (img.pc \in {"outer", "inner"}) ~> (img.pc = "done")

\* copyImageIf of the whole source with a checkerboard mask of 2s, to the
\* destination at <<1, 1>>, has returned.
C16_Witness ==
    /\ img.pc = "done" /\ call.op = "copyImageIf"
    /\ call.arg.ul = <<0, 0>> /\ call.arg.lr = <<MaxW, MaxH>>
    /\ call.arg.dul = <<1, 1>>
    /\ img.mask[<<1, 0>>] = 2
    /\ img.dest[<<2, 1>>] = IntOfDouble(SrcImage[<<1, 0>>])
    /\ img.dest[<<1, 1>>] = -7
    /\ Len(img.visited) = MaxW * MaxH

====
